---- MODULE Spec2Model ----
(***************************************************************************)
(* Content transfer stream of shapir: api/items/content.rs.                *)
(*                                                                         *)
(* A Content opened for reading relays reads to the response body of the   *)
(* download.  A Content opened for writing owns a WriteBuf (size, written, *)
(* buffer, chunk_uri, chunk_no).  io::Write::write appends the caller's    *)
(* bytes to the buffer and, when the buffer has reached CHUNK_SIZE or the  *)
(* declared size has been reached, POSTs the whole buffer as one chunk.    *)
(*                                                                         *)
(* Byte strings (Vec<u8>, &[u8]) are kept run-length encoded: a sequence   *)
(* of runs <<byte, count>> with count > 0 and no two neighbouring runs of  *)
(* the same byte.  The encoding is canonical, so two byte strings are      *)
(* equal exactly when their encodings are equal, and lengths of 16 KiB     *)
(* and more stay cheap.                                                    *)
(*                                                                         *)
(* u64/u32 arithmetic is exact here: every quantity stays far below 2^32.  *)
(***************************************************************************)
EXTENDS Integers, Sequences, FiniteSets, TLC

VARIABLES
    size,       \* WriteBuf.size: the declared file size
    written,    \* WriteBuf.written: bytes acknowledged by successful chunk POSTs
    buffer,     \* WriteBuf.buffer: bytes accepted and not yet uploaded
    chunk_no,   \* WriteBuf.chunk_no: index of the next chunk
    posts,      \* the connection: every POST sent through custom_request, with its
                \* outcome and the write call (number, input) that sent it
    result,     \* what the last call returned to the caller
    last,       \* the last call: its input and the fields of the handle on entry
    accepted,   \* all bytes appended to buffer so far, in call order
    calls,      \* number of calls made on the handle
    reader,     \* Content.reader: the response body being downloaded, if any
    writer,     \* Content.writer is Some (the WriteBuf fields above are its fields)
    net,        \* the connection: the requests sent while opening the handle
    open_result,        \* what open_for_read / open_for_write returned
    inner,      \* the last call that reached the inner reader, and what it returned
    upload_chunk_size,  \* Items.upload_chunk_size
    dropped,    \* the Content has gone out of scope
    items,      \* the Items::download / Items::upload call that opened the handle
    parameters, \* odata::Parameters under construction, the builder calls made
                \* on it and the string it was converted into
    connection, \* Connection: its settings, auth, endpoint, the requests it
                \* sent and what connect returned
    json        \* the value handed to Error::from_json and what came back

vars == <<size, written, buffer, chunk_no, posts, result, last, accepted, calls,
          reader, writer, net, open_result, inner, upload_chunk_size, dropped,
          items, parameters, connection, json>>

\* the collaborators of the transfer stream that no call on a Content touches
collaborators == <<parameters, connection, json>>

----------------------------------------------------------------------------
(* Bounds of the model *)

MaxCalls == 3       \* calls made on one handle
MaxSmall == 2       \* small declared sizes and small input lengths 0..MaxSmall
MaxBuilderCalls == 3    \* builder calls made on one Parameters

----------------------------------------------------------------------------
(* Program constants *)

\* const CHUNK_SIZE: usize = 1024 * 16;
CHUNK_SIZE == 16384

\* WriteBuf.chunk_uri: the ChunkUri of the upload specification, never changed
chunk_uri == "ChunkUri"

----------------------------------------------------------------------------
(* Byte strings *)

EmptyBytes == <<>>

RECURSIVE BLen(_)
\* [u8]::len
BLen(b) == IF b = <<>> THEN 0 ELSE b[1][2] + BLen(Tail(b))

\* a slice of n equal bytes
Fill(byte, n) == IF n = 0 THEN EmptyBytes ELSE << <<byte, n>> >>

\* Vec::extend_from_slice: a followed by b
extend_from_slice(a, b) ==
    IF a = <<>> THEN b
    ELSE IF b = <<>> THEN a
    ELSE IF a[Len(a)][1] = b[1][1]
         THEN SubSeq(a, 1, Len(a) - 1)
                  \o << <<b[1][1], a[Len(a)][2] + b[1][2]>> >>
                  \o Tail(b)
         ELSE a \o b

\* a is a leading part of b
IsPrefix(a, b) ==
    \/ a = <<>>
    \/ /\ Len(a) <= Len(b)
       /\ SubSeq(b, 1, Len(a) - 1) = SubSeq(a, 1, Len(a) - 1)
       /\ b[Len(a)][1] = a[Len(a)][1]
       /\ a[Len(a)][2] <= b[Len(a)][2]

----------------------------------------------------------------------------
(* Conversions used to build the chunk request *)

RECURSIVE to_string(_)
\* u64::to_string / u32::to_string: the decimal digits, most significant first
to_string(n) == IF n < 10 THEN <<n>> ELSE Append(to_string(n \div 10), n % 10)

RECURSIVE parse_decimal(_)
\* the number a digit string denotes (what the server reads from index= and offset=)
parse_decimal(d) ==
    IF d = <<>> THEN 0 ELSE 10 * parse_decimal(SubSeq(d, 1, Len(d) - 1)) + d[Len(d)]

RECURSIVE DigestFold(_, _, _)
DigestFold(b, pos, acc) ==
    IF b = <<>> THEN acc
    ELSE DigestFold(Tail(b), pos + b[1][2],
                    (acc * 31 + (b[1][1] + 1) * ((b[1][2] % 251) + 1) * ((pos % 251) + 1))
                        % 65536)

\* md5::compute: a digest of exactly the bytes given.  MD5 itself is not
\* computed; the stand-in is a 16-bit checksum over the bytes and their
\* positions, a function of the content alone.
md5_compute(b) == DigestFold(b, 0, 40503)

HexDigits == <<"0", "1", "2", "3", "4", "5", "6", "7",
               "8", "9", "a", "b", "c", "d", "e", "f">>

\* ToHex::to_hex: lowercase hexadecimal, two digits per digest byte
to_hex(d) == << HexDigits[((d \div 4096) % 16) + 1], HexDigits[((d \div 256) % 16) + 1],
                HexDigits[((d \div 16) % 16) + 1],   HexDigits[(d % 16) + 1] >>

----------------------------------------------------------------------------
(* Content::write, step by step *)

\* a guard that still lets a write through when written = size
BelowSize_Inclusive(w, s) == w <= s

\* line 143: the guard in front of the whole write
BelowSize(w, s) == w < s

\* a finish test that misses the write that exactly completes the file
IsFinish_Strict(w, b, s) == w + BLen(b) > s

\* line 145: let finish = (written + buffer.len()) >= size
IsFinish(w, b, s) == w + BLen(b) >= s

\* an upload forced by every write
ForceUpload_EveryWrite(b, finish) == TRUE

\* an upload forced only by the end of the file
ForceUpload_OnlyAtFinish(b, finish) == finish

\* line 148: force upload if the chunk size is reached or the file size is reached
ForceUpload(b, finish) == BLen(b) >= CHUNK_SIZE \/ finish

\* chunk parameters whose offset is the end of the chunk instead of its start
ChunkParams_EndOffset(finish, no, w, b) ==
    (IF finish THEN << <<"finish", <<"true">> >> >> ELSE <<>>)
        \o << <<"index", to_string(no)>>,
              <<"offset", to_string(w + BLen(b))>>,
              <<"filehash", to_hex(md5_compute(b))>> >>

\* chunk parameters that never carry finish
ChunkParams_FinishDropped(finish, no, w, b) ==
    << <<"index", to_string(no)>>,
       <<"offset", to_string(w)>>,
       <<"filehash", to_hex(md5_compute(b))>> >>

\* lines 153-163: the form-urlencoded chunk parameters, in append order
ChunkParams(finish, no, w, b) ==
    (IF finish THEN << <<"finish", <<"true">> >> >> ELSE <<>>)
        \o << <<"index", to_string(no)>>,
              <<"offset", to_string(w)>>,
              <<"filehash", to_hex(md5_compute(b))>> >>

\* a chunk request whose digest was taken before the input was appended
ChunkRequest_HashBeforeAppend(finish, no, w, b) ==
    [ method |-> "POST",
      uri    |-> chunk_uri,
      params |-> ChunkParams(finish, no, w, buffer),
      body   |-> b ]

\* lines 166-170: url = chunk_uri & params, POSTed with the buffer as the body
ChunkRequest(finish, no, w, b) ==
    [ method |-> "POST",
      uri    |-> chunk_uri,
      params |-> ChunkParams(finish, no, w, b),
      body   |-> b ]

\* hyper StatusCode::is_success: the 2xx class
is_success(status) == status >= 200 /\ status < 300

\* What custom_request can come back with: a response with a status, or a
\* transport error (status 0 stands for "no response").
Responses == { [ok |-> TRUE, status |-> 200, cause |-> ""],
               [ok |-> TRUE, status |-> 500, cause |-> ""],
               [ok |-> FALSE, status |-> 0, cause |-> "ConnectionRefused"] }

\* line 172: the chunk was acknowledged
Acknowledged(resp) == resp.ok /\ is_success(resp.status)

\* a chunk counter that is not advanced
ChunkNoAfter_Stuck(no) == no

\* a failed chunk that drops the buffered bytes
BufferAfterFailure_Cleared(b) == EmptyBytes

\* an acknowledged chunk that stays in the buffer
BufferAfterSuccess_Kept(b) == b

\* lines 173-175: the WriteBuf fields after an acknowledged chunk
WrittenAfter(w, b) == w + BLen(b)
ChunkNoAfter(no) == no + 1
BufferAfterSuccess(b) == EmptyBytes

\* lines 179-183: a failed chunk leaves the buffer as it is
BufferAfterFailure(b) == b

\* a status error that does not say which status
StatusError_NoStatus(status) ==
    [kind |-> "Err", n |-> 0, status |-> 0,
     msg |-> "Chunk upload failed with status", cause |-> ""]

\* lines 177-187: the io::Result handed back.  cause is the underlying error
\* an Error carries, "" when it carries none.
OkResult(n) == [kind |-> "Ok", n |-> n, status |-> 0, msg |-> "", cause |-> ""]
StatusError(status) ==
    [kind |-> "Err", n |-> 0, status |-> status,
     msg |-> "Chunk upload failed with status", cause |-> ""]
TransportError ==
    [kind |-> "Err", n |-> 0, status |-> 0, msg |-> "Cannot upload chunk", cause |-> ""]
SizePanic ==
    [kind |-> "Panic", n |-> 0, status |-> 0,
     msg |-> "Amount of bytes uploaded exceeded the file size", cause |-> ""]
NoResult == [kind |-> "None", n |-> 0, status |-> 0, msg |-> "", cause |-> ""]

\* line 195: write on a Content that has no writer
NotWriterPanic ==
    [kind |-> "Panic", n |-> 0, status |-> 0,
     msg |-> "Content stream is not opened for writing data", cause |-> ""]

\* line 131: read on a Content that has no reader
NotReaderPanic ==
    [kind |-> "Panic", n |-> 0, status |-> 0,
     msg |-> "Content stream is not opened for reading data", cause |-> ""]

\* an Err with a message and, possibly, the error that caused it
ErrResult(msg, cause) == [kind |-> "Err", n |-> 0, status |-> 0, msg |-> msg, cause |-> cause]

----------------------------------------------------------------------------
(* Content::open_for_read and Content::open_for_write *)

\* Option<Box<io::Read>>: the response body of the download, left bytes from its end
NoReader == [some |-> FALSE, left |-> 0]
SomeReader(n) == [some |-> TRUE, left |-> n]

\* What conn.query_json can come back with for the transfer specification:
\* an error, or a JSON value in which the URL property (DownloadUrl or
\* ChunkUri) is missing, is a string, or is something else.
SpecReplies == { [ok |-> FALSE, field |-> "Missing"],
                 [ok |-> TRUE,  field |-> "Missing"],
                 [ok |-> TRUE,  field |-> "String"],
                 [ok |-> TRUE,  field |-> "NotString"] }

\* a lookup that takes a missing ChunkUri for a present one
ChunkUriFound_Always(specs) == TRUE

\* lines 71, 108: specs.find(..) is Some
DownloadUrlFound(specs) == specs.field # "Missing"
ChunkUriFound(specs) == specs.field # "Missing"

\* lines 72, 109: v.as_string() is Some (unwrap panics otherwise)
IsString(specs) == specs.field = "String"

DownloadUrlMissing ==
    ErrResult("DownloadSpecification.DownloadUrl property is missing.", "InvalidInput")
ChunkUriMissing ==
    ErrResult("UploadSpecification.ChunkUri property is missing.", "InvalidInput")
QueryFailed == ErrResult("query_json failed", "")
NotConnected == ErrResult("custom_request failed", "NotConnected")
UnwrapPanic ==
    [kind |-> "Panic", n |-> 0, status |-> 0,
     msg |-> "called Option::unwrap() on a None value", cause |-> ""]

\* Items.upload_chunk_size: Option<usize>
NoChunkSize == [some |-> FALSE, value |-> 0]
SomeChunkSize(n) == [some |-> TRUE, value |-> n]

----------------------------------------------------------------------------
(* Records of the calls made *)

NoCall == [op |-> "none", input |-> EmptyBytes, written |-> 0, buffer |-> EmptyBytes,
           chunk_no |-> 0, nposts |-> 0, left |-> 0, nnet |-> 0, ninner |-> 0]

EntryOf(op, buf) == [op |-> op, input |-> buf, written |-> written, buffer |-> buffer,
                     chunk_no |-> chunk_no, nposts |-> Len(posts),
                     left |-> reader.left, nnet |-> Len(net), ninner |-> inner.n]

\* no call has reached the inner reader
NoInner == [n |-> 0, cap |-> 0, ret |-> NoResult]

----------------------------------------------------------------------------
(* Inputs *)

\* declared sizes a handle is opened with
Sizes == (0 .. MaxSmall) \cup {100, 20000}

\* lengths of the larger slices handed to write
LargeLens == {40, 60, 3616, CHUNK_SIZE, 20000}

ByteValues == {0, 255}

\* the slices handed to write: single bytes of either value, and runs of
\* zeroes of every length
Inputs == { Fill(byte, 1) : byte \in ByteValues }
              \cup { Fill(0, n) : n \in (0 .. MaxSmall) \cup LargeLens }

\* lengths of the response bodies a download streams
BodyLens == 0 .. (MaxSmall + 1)

\* lengths of the buffers handed to read
ReadCaps == 0 .. MaxSmall

\* errors the response body reader can come back with
ReadErrors == { ErrResult("read failed", "ConnectionReset"),
                ErrResult("read failed", "Interrupted") }

\* What the response body reader can come back with for a buffer of cap
\* bytes when left bytes remain: some bytes (none only at the end of the
\* stream or for an empty buffer), or an error.
InnerReturns(cap, left) ==
    { OkResult(k) : k \in { j \in 0 .. cap : j <= left /\ (j = 0 => (left = 0 \/ cap = 0)) } }
        \cup ReadErrors

\* chunk sizes the Items collaborator is configured with
ConfiguredChunkSizes == { NoChunkSize, SomeChunkSize(1), SomeChunkSize(40) }

----------------------------------------------------------------------------
(* api/items: Path, Item, MultiOption and the results of Items::stat *)

\* Path::Id(id), Path::Absolute(path), Path::Relative(id, path), ...
PathOf(kind, id, path) == [kind |-> kind, id |-> id, path |-> path]

NoPath == PathOf("none", "", "")

\* the paths handed to Items::download and Items::upload
Paths == { PathOf("Id", "fo1", ""), PathOf("Id", "fo2", ""),
           PathOf("Home", "", ""), PathOf("Top", "", ""),
           PathOf("Absolute", "", "/docs/a.txt"),
           PathOf("Relative", "fo1", "a.txt"),
           PathOf("Parent", "fo2", "") }

\* Path::is_id
is_id(path) == path.kind = "Id"

\* Item::path: the Id path of the item
item_path(item) == PathOf("Id", item.id, "")

\* Items::stat comes back with Ok(One(item)), Ok(Many(items)), Ok(None) or
\* Err(e); item is the item found, or the first of several
StatResults == { [kind |-> "One", item |-> [id |-> "fi1"]],
                 [kind |-> "One", item |-> [id |-> "fi2"]],
                 [kind |-> "Many", item |-> [id |-> "fi1"]],
                 [kind |-> "None", item |-> [id |-> ""]],
                 [kind |-> "Err", item |-> [id |-> ""]] }

\* no lookup was made
NoStat == [kind |-> "Skipped", item |-> [id |-> ""]]

\* a resolution that settles for the first of several items
ResolvesToOne_FirstOfMany(st) == st.kind \in {"One", "Many"}

\* mod.rs lines 227, 266: the arm Ok(MultiOption::One(item))
ResolvesToOne(st) == st.kind = "One"

ManyItems == ErrResult("There are more than one Item on path", "Other")
ItemNotFound == ErrResult("The Item is not found", "Other")
StatFailed == ErrResult("stat failed", "")

\* mod.rs lines 228-230, 267-269: the arms that return an error
StatError(st) ==
    IF st.kind = "Many" THEN ManyItems
    ELSE IF st.kind = "None" THEN ItemNotFound
    ELSE StatFailed

\* no call has been made on Items
NoItemsCall == [op |-> "none", path |-> NoPath, lookups |-> <<>>,
                opened |-> NoPath, ret |-> NoResult]

\* the record of one Items::download / Items::upload call: the path given,
\* the lookups made, the path handed to Content::open_for_*, and the error
\* returned when nothing was opened
ItemsCall(op, path, lookups, opened, ret) ==
    [op |-> op, path |-> path, lookups |-> lookups, opened |-> opened, ret |-> ret]

----------------------------------------------------------------------------
(* connection: ConnectionSettings, AuthData, Connection *)

\* Option<String>
NoString == [some |-> FALSE, value |-> ""]
SomeString(v) == [some |-> TRUE, value |-> v]

\* ConnectionSettings::default (the two timeouts play no part in connect)
NoSettings == [subdomain |-> NoString, username |-> NoString, password |-> NoString,
               client_id |-> NoString, client_secret |-> NoString]

\* Connection.auth: Option<AuthData>
NoAuth == [some |-> FALSE, subdomain |-> ""]
SomeAuth(subdomain) == [some |-> TRUE, subdomain |-> subdomain]

\* Connection::configured
configured(settings) ==
    [settings |-> settings, auth |-> NoAuth, endpoint |-> <<>>, sent |-> <<>>,
     ret |-> NoResult]

\* values the builder is given for a setting
SettingValues == {"one", "two"}

\* a connect that does without the client secret
MissingSetting_SecretOptional(s) ==
    IF ~s.subdomain.some THEN "Subdomain"
    ELSE IF ~s.username.some THEN "Username"
    ELSE IF ~s.password.some THEN "Password"
    ELSE IF ~s.client_id.some THEN "Client ID"
    ELSE ""

\* connection.rs lines 116-139: the first required setting that is None, in
\* the order connect tests them; "" when all five are set
MissingSetting(s) ==
    IF ~s.subdomain.some THEN "Subdomain"
    ELSE IF ~s.username.some THEN "Username"
    ELSE IF ~s.password.some THEN "Password"
    ELSE IF ~s.client_id.some THEN "Client ID"
    ELSE IF ~s.client_secret.some THEN "Client Secret"
    ELSE ""

\* Error::io_result(IoError::new(InvalidInput, "... is required"))
SettingRequired(name) == ErrResult(name \o " is required", "InvalidInput")

UrlError == ErrResult("url parse error", "Url")
NetworkError == ErrResult("network error", "Network")
AuthServiceError == ErrResult("invalid_grant", "Service")
AuthFieldMissing == ErrResult("Auth Subdomain is missing.", "InvalidInput")

\* what the token endpoint can answer: nothing (the request fails), a body
\* that is no JSON, an "error" member, a body without "subdomain", or the
\* four auth values
AuthReplies == { [ok |-> FALSE, body |-> "none", subdomain |-> ""],
                 [ok |-> TRUE, body |-> "malformed", subdomain |-> ""],
                 [ok |-> TRUE, body |-> "error", subdomain |-> ""],
                 [ok |-> TRUE, body |-> "incomplete", subdomain |-> ""],
                 [ok |-> TRUE, body |-> "auth", subdomain |-> "acme"] }

\* serde_json::from_str(..).unwrap() and AuthData::parse_value,
\* connection.rs lines 21-55 and 168
parse_value(reply) ==
    IF reply.body = "malformed" THEN UnwrapPanic
    ELSE IF reply.body = "error" THEN AuthServiceError
    ELSE IF reply.body = "incomplete" THEN AuthFieldMissing
    ELSE OkResult(0)

\* the authentication request of connect, lines 141-159
TokenRequest(s) ==
    [method |-> "Post",
     uri |-> <<"https://", s.subdomain.value, ".sharefile.com/oauth/token">>,
     form |-> << <<"grant_type", "password">>,
                 <<"client_id", s.client_id.value>>,
                 <<"client_secret", s.client_secret.value>>,
                 <<"username", s.username.value>>,
                 <<"password", s.password.value>> >>]

----------------------------------------------------------------------------
(* error: serde_json::Value and ServiceError::from_json *)

\* a Value that is no object: t is "String", "Number", "Null" or "Array"
Prim(t, s) == [t |-> t, s |-> s, m |-> <<>>]

\* Value::Object: m maps the member names to their values
Obj(m) == [t |-> "Object", s |-> "", m |-> m]

\* one member, or none when v is Absent
Absent == [t |-> "Absent", s |-> "", m |-> <<>>]
Member(name, v) == IF v = Absent THEN <<>> ELSE name :> v

\* Value::find: the member of that name, if the value is an object and has it
has(value, name) == value.t = "Object" /\ name \in DOMAIN value.m
find(value, name) == value.m[name]

\* Value::as_string is Some
as_string(value) == value.t = "String"

\* what a "code" member can be
CodeValues == { Absent, Prim("String", "BadRequest"), Prim("String", "NotFound"),
                Prim("Number", "404"), Prim("Null", "") }

\* what a "message" member can be
MessageValues ==
    { Absent,
      Obj(("lang" :> Prim("String", "en-US"))
              @@ ("value" :> Prim("String", "Invalid Argument Items.Folder"))),
      Obj("lang" :> Prim("String", "en-US")),
      Obj("value" :> Prim("Number", "7")),
      Prim("String", "Invalid Argument Items.Folder") }

\* what else the object carries
OtherMembers == { <<>>, "Id" :> Prim("String", "some-file-id"),
                  "reason" :> Prim("String", "BadRequest"),
                  "odata.count" :> Prim("Number", "2") }

\* the values handed to Error::from_json
JsonValues ==
    { Obj(Member("code", c) @@ Member("message", msg) @@ o) :
          c \in CodeValues, msg \in MessageValues, o \in OtherMembers }
        \cup { Prim("String", "code"), Prim("Number", "1"), Prim("Null", ""),
               Prim("Array", "") }

\* from_json has not been called
NoParse == [called |-> FALSE, input |-> Absent, kind |-> "None", value |-> Absent,
            code |-> "", message |-> ""]

\* Result<Value>: Ok(value), Err(Error::Service(ServiceError {code, message})),
\* or the panic of an unwrap on None
Parsed(input, kind, value, code, message) ==
    [called |-> TRUE, input |-> input, kind |-> kind, value |-> value,
     code |-> code, message |-> message]

\* ServiceError::from_json, service_error.rs lines 26-46: None without a
\* "code" member; with one, every unwrap on the way to the code string and
\* to message.value panics when the member is missing or no string
ServiceErrorOf(value) ==
    IF ~has(value, "code") THEN [kind |-> "None", code |-> "", message |-> ""]
    ELSE IF ~as_string(find(value, "code"))
    THEN [kind |-> "Panic", code |-> "", message |-> ""]
    ELSE IF ~has(value, "message")
    THEN [kind |-> "Panic", code |-> "", message |-> ""]
    ELSE IF ~has(find(value, "message"), "value")
    THEN [kind |-> "Panic", code |-> "", message |-> ""]
    ELSE IF ~as_string(find(find(value, "message"), "value"))
    THEN [kind |-> "Panic", code |-> "", message |-> ""]
    ELSE [kind |-> "Some", code |-> find(value, "code").s,
          message |-> find(find(value, "message"), "value").s]

----------------------------------------------------------------------------
(* odata::Parameters and its conversion into a query string *)

\* Strings are sequences of characters here, so that the percent-encoding
\* of the conversion is computed character by character.
S_a == <<"a">>
S_enable == <<"e", "n">>
S_hello == <<"h", "i">>
S_amp == <<"x", "&", "y", "=", "z">>
S_Field1 == <<"F", "1">>
S_Field2 == <<"F", "2">>
S_3 == <<"3">>
S_AeqB == <<"A", " ", "e", "q", " ", "B">>
S_true == <<"t">>
S_DateAsc == <<"D", " ", "a", "s", "c">>
S_Id == <<"I", "d">>

\* Option<Vec<..>> and Option<u32>
NoVec == [some |-> FALSE, items |-> <<>>]
SomeVec(vec) == [some |-> TRUE, items |-> vec]
NoNum == [some |-> FALSE, value |-> 0]
SomeNum(n) == [some |-> TRUE, value |-> n]

\* Parameters::new
new == [custom |-> NoVec, select |-> NoVec, expand |-> NoVec, filter |-> NoVec,
        order_by |-> NoVec, top |-> NoNum, skip |-> NoNum]

\* the Parameters has not been converted
NotConverted == [done |-> FALSE, str |-> <<>>]

\* arguments of the builder calls
CustomVecs == { << <<S_a, S_hello>> >>, << <<S_enable, S_true>>, <<S_a, S_amp>> >> }
CustomPairs == { <<S_a, S_hello>>, <<S_enable, S_amp>> }
FieldVecs == { <<>>, <<S_Field1, S_Field2>> }
FilterVecs == { <<S_AeqB>> }
OrderVecs == { <<S_DateAsc>> }
Counts == {0, 10}

\* Vec::push, or a new vector of one item when the option is None
\* (the match of each *_add method)
push_or_new(opt, item) ==
    IF opt.some THEN SomeVec(Append(opt.items, item)) ELSE SomeVec(<<item>>)

RECURSIVE join(_, _)
\* [String]::join: the items with sep between them
join(strs, sep) ==
    IF strs = <<>> THEN <<>>
    ELSE IF Len(strs) = 1 THEN strs[1]
    ELSE strs[1] \o sep \o join(Tail(strs), sep)

\* the digits of a u32 as characters
DigitChars == <<"0", "1", "2", "3", "4", "5", "6", "7", "8", "9">>
num_to_string(n) == [i \in 1 .. Len(to_string(n)) |-> DigitChars[to_string(n)[i] + 1]]

\* an options vector that puts $skip before $top
Options_SkipBeforeTop(p) ==
    (IF p.custom.some THEN p.custom.items ELSE <<>>)
        \o (IF p.select.some THEN << <<<<"$", "s", "e", "l", "e", "c", "t">>,
                                        join(p.select.items, <<",">>)>> >> ELSE <<>>)
        \o (IF p.expand.some THEN << <<<<"$", "e", "x", "p", "a", "n", "d">>,
                                        join(p.expand.items, <<",">>)>> >> ELSE <<>>)
        \o (IF p.filter.some THEN << <<<<"$", "f", "i", "l", "t", "e", "r">>,
                                        join(p.filter.items, <<" ", "a", "n", "d", " ">>)>> >>
                             ELSE <<>>)
        \o (IF p.order_by.some THEN << <<<<"$", "o", "r", "d", "e", "r", "B", "y">>,
                                          join(p.order_by.items, <<",">>)>> >> ELSE <<>>)
        \o (IF p.skip.some THEN << <<<<"$", "s", "k", "i", "p">>,
                                      num_to_string(p.skip.value)>> >> ELSE <<>>)
        \o (IF p.top.some THEN << <<<<"$", "t", "o", "p">>,
                                     num_to_string(p.top.value)>> >> ELSE <<>>)

\* the options vector of into, parameters.rs lines 183-211: the custom
\* pairs, then one pair for each option that is Some, in this order
Options(p) ==
    (IF p.custom.some THEN p.custom.items ELSE <<>>)
        \o (IF p.select.some THEN << <<<<"$", "s", "e", "l", "e", "c", "t">>,
                                        join(p.select.items, <<",">>)>> >> ELSE <<>>)
        \o (IF p.expand.some THEN << <<<<"$", "e", "x", "p", "a", "n", "d">>,
                                        join(p.expand.items, <<",">>)>> >> ELSE <<>>)
        \o (IF p.filter.some THEN << <<<<"$", "f", "i", "l", "t", "e", "r">>,
                                        join(p.filter.items, <<" ", "a", "n", "d", " ">>)>> >>
                             ELSE <<>>)
        \o (IF p.order_by.some THEN << <<<<"$", "o", "r", "d", "e", "r", "B", "y">>,
                                          join(p.order_by.items, <<",">>)>> >> ELSE <<>>)
        \o (IF p.top.some THEN << <<<<"$", "t", "o", "p">>,
                                     num_to_string(p.top.value)>> >> ELSE <<>>)
        \o (IF p.skip.some THEN << <<<<"$", "s", "k", "i", "p">>,
                                      num_to_string(p.skip.value)>> >> ELSE <<>>)

\* the characters of the model's strings that are percent-encoded, with the
\* two hex digits of their code; every other character used is a letter or
\* a digit, which the encoding leaves alone
PercentCodes == ("$" :> <<"2", "4">>) @@ ("," :> <<"2", "C">>)
                    @@ ("&" :> <<"2", "6">>) @@ ("=" :> <<"3", "D">>)

\* form_urlencoded: one character, encoded
byte_serialize(c) ==
    IF c = " " THEN <<"+">>
    ELSE IF c \in DOMAIN PercentCodes THEN <<"%">> \o PercentCodes[c]
    ELSE <<c>>

RECURSIVE encode(_)
encode(str) == IF str = <<>> THEN <<>> ELSE byte_serialize(str[1]) \o encode(Tail(str))

RECURSIVE serialize(_)
\* form_urlencoded::serialize: name=value pairs, encoded, joined with &
serialize(options) ==
    IF options = <<>> THEN <<>>
    ELSE encode(options[1][1]) \o <<"=">> \o encode(options[1][2])
             \o (IF Len(options) = 1 THEN <<>> ELSE <<"&">> \o serialize(Tail(options)))

----------------------------------------------------------------------------
(* State machine *)

\* a Content exists and is in scope
HandleExists == (reader.some \/ writer) /\ ~dropped

\* Nothing has been opened yet; Items::new leaves upload_chunk_size at None.
InitFields ==
    /\ reader = NoReader
    /\ writer = FALSE
    /\ size = 0
    /\ written = 0
    /\ buffer = EmptyBytes
    /\ chunk_no = 0
    /\ posts = <<>>
    /\ net = <<>>
    /\ result = NoResult
    /\ open_result = NoResult
    /\ last = NoCall
    /\ inner = NoInner
    /\ accepted = EmptyBytes
    /\ calls = 0
    /\ dropped = FALSE

\* no collaborator has been called yet
InitCollaborators ==
    /\ items = NoItemsCall
    /\ parameters = [options |-> new, log |-> <<>>, out |-> NotConverted]
    /\ connection = configured(NoSettings)
    /\ json = NoParse

Init == InitFields /\ InitCollaborators /\ upload_chunk_size = NoChunkSize

\* Items::configured / Items::set_upload_chunk_size before the upload
InitConfigured ==
    InitFields /\ InitCollaborators /\ upload_chunk_size \in ConfiguredChunkSizes

\* Content::open_for_read: specs is the reply to the specification query,
\* resp the reply to the GET of the download URL, n the length of its body
open_for_read(specs, resp, n) ==
    /\ open_result.kind = "None"
    /\ UNCHANGED <<writer, size, written, buffer, chunk_no, posts, result, last, inner,
                   accepted, calls, upload_chunk_size, dropped, collaborators>>
    /\ IF ~specs.ok
       THEN /\ net' = <<[kind |-> "DownloadSpec", reply |-> specs]>>
            /\ open_result' = QueryFailed
            /\ reader' = reader
       ELSE IF ~DownloadUrlFound(specs)
       THEN /\ net' = <<[kind |-> "DownloadSpec", reply |-> specs]>>
            /\ open_result' = DownloadUrlMissing
            /\ reader' = reader
       ELSE IF ~IsString(specs)
       THEN /\ net' = <<[kind |-> "DownloadSpec", reply |-> specs]>>
            /\ open_result' = UnwrapPanic
            /\ reader' = reader
       ELSE /\ net' = <<[kind |-> "DownloadSpec", reply |-> specs],
                        [kind |-> "Download", reply |-> [ok |-> resp.ok, field |-> "Body"]]>>
            /\ IF resp.ok
               THEN /\ open_result' = OkResult(0)
                    /\ reader' = SomeReader(n)
               ELSE /\ open_result' = NotConnected
                    /\ reader' = reader

\* Content::open_for_write: declared is the size argument, specs the reply
\* to the specification query.  There is no chunk size among its
\* parameters: upload_chunk_size does not reach the WriteBuf.
open_for_write(declared, specs) ==
    /\ open_result.kind = "None"
    /\ net' = <<[kind |-> "UploadSpec", reply |-> specs]>>
    /\ UNCHANGED <<reader, written, buffer, chunk_no, posts, result, last, inner,
                   accepted, calls, upload_chunk_size, dropped, collaborators>>
    /\ IF ~specs.ok
       THEN /\ open_result' = QueryFailed
            /\ UNCHANGED <<writer, size>>
       ELSE IF ~ChunkUriFound(specs)
       THEN /\ open_result' = ChunkUriMissing
            /\ UNCHANGED <<writer, size>>
       ELSE IF ~IsString(specs)
       THEN /\ open_result' = UnwrapPanic
            /\ UNCHANGED <<writer, size>>
       ELSE /\ open_result' = OkResult(0)
            /\ writer' = TRUE
            /\ size' = declared

\* a test that finds a writer in every Content
HasWriter_Always(w) == TRUE

\* line 142: if let Some(ref mut write_buf) = self.writer
HasWriter(w) == w

\* line 126: if let Some(ref mut reader) = self.reader
HasReader(r) == r.some

\* a relay that turns every error of the inner reader into one of its own
Relay_Reclassified(ret) ==
    IF ret.kind = "Err" THEN [ret EXCEPT !.cause = "Other"] ELSE ret

\* line 128: reader.read(buf) is the value of the call
Relay(ret) == ret

\* io::Read::read with a buffer of cap bytes; ret is what the inner reader
\* returns, NoResult when there is no inner reader to call
read(cap, ret) ==
    /\ HandleExists
    /\ calls < MaxCalls
    /\ calls' = calls + 1
    /\ last' = EntryOf("read", EmptyBytes)
    /\ UNCHANGED <<writer, size, written, buffer, chunk_no, posts, net, open_result,
                   accepted, upload_chunk_size, dropped, items, collaborators>>
    /\ IF HasReader(reader)
       THEN /\ ret \in InnerReturns(cap, reader.left)
            /\ inner' = [n |-> inner.n + 1, cap |-> cap, ret |-> ret]
            /\ reader' = [reader EXCEPT !.left = @ - ret.n]
            /\ result' = Relay(ret)
       ELSE /\ ret = NoResult
            /\ result' = NotReaderPanic
            /\ UNCHANGED <<reader, inner>>

\* io::Write::write
write(buf, resp) ==
    /\ HandleExists
    /\ calls < MaxCalls
    /\ calls' = calls + 1
    /\ last' = EntryOf("write", buf)
    /\ UNCHANGED <<reader, writer, size, net, open_result, inner, upload_chunk_size,
                   dropped, items, collaborators>>
    /\ IF ~HasWriter(writer)
       THEN /\ result' = NotWriterPanic
            /\ UNCHANGED <<written, buffer, chunk_no, posts, accepted>>
       ELSE IF BelowSize(written, size)
       THEN LET appended == extend_from_slice(buffer, buf)
                finish   == IsFinish(written, appended, size)
            IN  /\ accepted' = extend_from_slice(accepted, buf)
                /\ IF ForceUpload(appended, finish)
                   THEN LET req == ChunkRequest(finish, chunk_no, written, appended)
                        IN  /\ posts' = Append(posts, [req |-> req, resp |-> resp,
                                                       call |-> calls + 1,
                                                       input |-> buf])
                            /\ IF Acknowledged(resp)
                               THEN /\ written' = WrittenAfter(written, appended)
                                    /\ chunk_no' = ChunkNoAfter(chunk_no)
                                    /\ buffer' = BufferAfterSuccess(appended)
                                    /\ result' = OkResult(BLen(buf))
                               ELSE /\ written' = written
                                    /\ chunk_no' = chunk_no
                                    /\ buffer' = BufferAfterFailure(appended)
                                    /\ result' = IF resp.ok THEN StatusError(resp.status)
                                                            ELSE TransportError
                   ELSE /\ buffer' = appended
                        /\ result' = OkResult(BLen(buf))
                        /\ UNCHANGED <<written, chunk_no, posts>>
       ELSE /\ result' = SizePanic
            /\ UNCHANGED <<written, buffer, chunk_no, posts, accepted>>

\* a flush that uploads what is pending
flush_SendsPending ==
    /\ HandleExists
    /\ calls < MaxCalls
    /\ calls' = calls + 1
    /\ last' = EntryOf("flush", EmptyBytes)
    /\ result' = OkResult(0)
    /\ posts' = IF writer /\ buffer # EmptyBytes
                THEN Append(posts, [req |-> ChunkRequest(FALSE, chunk_no, written, buffer),
                                    resp |-> [ok |-> FALSE, status |-> 0,
                                              cause |-> "ConnectionRefused"],
                                    call |-> calls + 1,
                                    input |-> EmptyBytes])
                ELSE posts
    /\ UNCHANGED <<reader, writer, size, written, buffer, chunk_no, net,
                   open_result, inner, accepted, upload_chunk_size, dropped, items,
                   collaborators>>

\* a flush that throws the pending bytes away
flush_DiscardsPending ==
    /\ HandleExists
    /\ calls < MaxCalls
    /\ calls' = calls + 1
    /\ last' = EntryOf("flush", EmptyBytes)
    /\ result' = OkResult(0)
    /\ buffer' = EmptyBytes
    /\ UNCHANGED <<reader, writer, size, written, chunk_no, posts, net,
                   open_result, inner, accepted, upload_chunk_size, dropped, items,
                   collaborators>>

\* io::Write::flush
flush ==
    /\ HandleExists
    /\ calls < MaxCalls
    /\ calls' = calls + 1
    /\ last' = EntryOf("flush", EmptyBytes)
    /\ result' = OkResult(0)
    /\ UNCHANGED <<reader, writer, size, written, buffer, chunk_no, posts, net,
                   open_result, inner, accepted, upload_chunk_size, dropped, items,
                   collaborators>>

\* The Content goes out of scope.  Neither Content nor WriteBuf implements
\* Drop: the fields are released as they are and nothing is sent.
drop ==
    /\ HandleExists
    /\ calls < MaxCalls
    /\ calls' = calls + 1
    /\ last' = EntryOf("drop", EmptyBytes)
    /\ result' = NoResult
    /\ dropped' = TRUE
    /\ UNCHANGED <<reader, writer, size, written, buffer, chunk_no, posts, net,
                   open_result, inner, accepted, upload_chunk_size, items,
                   collaborators>>

\* Content::open_for_read called directly
OpenRead ==
    \E specs \in SpecReplies, resp \in Responses, n \in BodyLens :
        open_for_read(specs, resp, n) /\ UNCHANGED items

\* Content::open_for_write called directly
OpenWrite ==
    \E declared \in Sizes, specs \in SpecReplies :
        open_for_write(declared, specs) /\ UNCHANGED items

Read ==
    \E cap \in ReadCaps, ret \in InnerReturns(MaxSmall, MaxSmall + 1) \cup {NoResult} :
        read(cap, ret)

Write == \E buf \in Inputs, resp \in Responses : write(buf, resp)

Next == OpenRead \/ OpenWrite \/ Read \/ Write \/ flush \/ drop

\* a handle opened through Items::new
Spec == Init /\ [][Next]_vars

\* a handle opened through a configured Items
SpecConfigured == InitConfigured /\ [][Next]_vars

----------------------------------------------------------------------------
(* Items::download and Items::upload *)

\* everything a Content and its Items are made of
content == <<size, written, buffer, chunk_no, posts, result, last, accepted, calls,
             reader, writer, net, open_result, inner, upload_chunk_size, dropped>>

\* Items::download(path): st is what stat returns for a path that is no Id;
\* specs, resp and n are the replies open_for_read meets
download(path, st, specs, resp, n) ==
    /\ items.op = "none"
    /\ IF is_id(path)
       THEN /\ st = NoStat
            /\ items' = ItemsCall("download", path, <<>>, path, NoResult)
            /\ open_for_read(specs, resp, n)
       ELSE /\ st \in StatResults
            /\ IF ResolvesToOne(st)
               THEN /\ items' = ItemsCall("download", path,
                                          <<[path |-> path, found |-> st]>>,
                                          item_path(st.item), NoResult)
                    /\ open_for_read(specs, resp, n)
               ELSE /\ items' = ItemsCall("download", path,
                                          <<[path |-> path, found |-> st]>>,
                                          NoPath, StatError(st))
                    /\ UNCHANGED <<content, collaborators>>

\* Items::upload(parent, name, size, unzip, overwrite)
upload(parent, declared, st, specs) ==
    /\ items.op = "none"
    /\ IF is_id(parent)
       THEN /\ st = NoStat
            /\ items' = ItemsCall("upload", parent, <<>>, parent, NoResult)
            /\ open_for_write(declared, specs)
       ELSE /\ st \in StatResults
            /\ IF ResolvesToOne(st)
               THEN /\ items' = ItemsCall("upload", parent,
                                          <<[path |-> parent, found |-> st]>>,
                                          item_path(st.item), NoResult)
                    /\ open_for_write(declared, specs)
               ELSE /\ items' = ItemsCall("upload", parent,
                                          <<[path |-> parent, found |-> st]>>,
                                          NoPath, StatError(st))
                    /\ UNCHANGED <<content, collaborators>>

Download ==
    \E path \in Paths, st \in StatResults \cup {NoStat}, specs \in SpecReplies,
       resp \in Responses, n \in BodyLens :
        download(path, st, specs, resp, n)

Upload ==
    \E parent \in Paths, declared \in Sizes, st \in StatResults \cup {NoStat},
       specs \in SpecReplies :
        upload(parent, declared, st, specs)

NextItems == Download \/ Upload

\* one call of Items::download or Items::upload
SpecItems == Init /\ [][NextItems]_vars

\* what the Items call returned: its own error, or what open_for_* returned
ItemsReturn == IF items.ret.kind = "None" THEN open_result ELSE items.ret

----------------------------------------------------------------------------
(* ConnectionBuilder and Connection::connect *)

\* a ConnectionBuilder setter: self.settings.<field> = Some(v)
Setting(field, v) ==
    /\ connection.ret.kind = "None"
    /\ connection' = [connection EXCEPT !.settings[field] = SomeString(v)]
    /\ UNCHANGED <<content, items, parameters, json>>

subdomain(v) == Setting("subdomain", v)
username(v) == Setting("username", v)
password(v) == Setting("password", v)
client_id(v) == Setting("client_id", v)
client_secret(v) == Setting("client_secret", v)

\* Connection::connect: url_ok is whether the token URL parses, reply what
\* the token endpoint answers
connect(url_ok, reply) ==
    /\ connection.ret.kind = "None"
    /\ UNCHANGED <<content, items, parameters, json>>
    /\ LET s == connection.settings
           missing == MissingSetting(s)
       IN  IF missing # ""
           THEN connection' = [connection EXCEPT !.ret = SettingRequired(missing)]
           ELSE IF ~url_ok
           THEN connection' = [connection EXCEPT !.ret = UrlError]
           ELSE IF ~reply.ok
           THEN connection' = [connection EXCEPT !.sent = <<TokenRequest(s)>>,
                                                 !.ret = NetworkError]
           ELSE IF parse_value(reply).kind # "Ok"
           THEN connection' = [connection EXCEPT !.sent = <<TokenRequest(s)>>,
                                                 !.ret = parse_value(reply)]
           ELSE connection' =
                    [connection EXCEPT
                         !.sent = <<TokenRequest(s)>>,
                         !.endpoint = <<"https://", reply.subdomain, ".sf-api.com/sf/v3/">>,
                         !.auth = SomeAuth(reply.subdomain),
                         !.ret = OkResult(0)]

SetSubdomain == \E v \in SettingValues : subdomain(v)
SetUsername == \E v \in SettingValues : username(v)
SetPassword == \E v \in SettingValues : password(v)
SetClientId == \E v \in SettingValues : client_id(v)
SetClientSecret == \E v \in SettingValues : client_secret(v)
Connect == \E url_ok \in BOOLEAN, reply \in AuthReplies : connect(url_ok, reply)

NextConnect ==
    SetSubdomain \/ SetUsername \/ SetPassword \/ SetClientId \/ SetClientSecret
        \/ Connect

\* a ConnectionBuilder configured in any order, then connect
SpecConnect == Init /\ [][NextConnect]_vars

----------------------------------------------------------------------------
(* Error::from_json *)

\* Error::from_json(value), error/mod.rs lines 64-67
from_json(value) ==
    /\ UNCHANGED <<content, items, parameters, connection>>
    /\ LET e == ServiceErrorOf(value)
       IN  json' = IF e.kind = "None" THEN Parsed(value, "Ok", value, "", "")
                   ELSE IF e.kind = "Panic" THEN Parsed(value, "Panic", Absent, "", "")
                   ELSE Parsed(value, "Err", Absent, e.code, e.message)

NextJson == \E value \in JsonValues : from_json(value)

\* Error::from_json applied to one value after another
SpecJson == Init /\ [][NextJson]_vars

----------------------------------------------------------------------------
(* The Parameters builder *)

\* one builder call: the method, the option it sets, its argument and the
\* Parameters it returns
Build(method, option, arg, opts) ==
    /\ ~parameters.out.done
    /\ Len(parameters.log) < MaxBuilderCalls
    /\ parameters' = [options |-> opts,
                      log |-> Append(parameters.log,
                                     [method |-> method, option |-> option, arg |-> arg]),
                      out |-> NotConverted]
    /\ UNCHANGED <<content, items, connection, json>>

custom(opt) ==
    Build("custom", "custom", opt, [parameters.options EXCEPT !.custom = SomeVec(opt)])
custom_add(param) ==
    Build("custom_add", "custom", param,
          [parameters.options EXCEPT !.custom = push_or_new(@, param)])
select(opt) ==
    Build("select", "$select", opt, [parameters.options EXCEPT !.select = SomeVec(opt)])
select_add(opt) ==
    Build("select_add", "$select", opt,
          [parameters.options EXCEPT !.select = push_or_new(@, opt)])
expand(opt) ==
    Build("expand", "$expand", opt, [parameters.options EXCEPT !.expand = SomeVec(opt)])
expand_add(opt) ==
    Build("expand_add", "$expand", opt,
          [parameters.options EXCEPT !.expand = push_or_new(@, opt)])
filter(opt) ==
    Build("filter", "$filter", opt, [parameters.options EXCEPT !.filter = SomeVec(opt)])
filter_add(opt) ==
    Build("filter_add", "$filter", opt,
          [parameters.options EXCEPT !.filter = push_or_new(@, opt)])
order_by(opt) ==
    Build("order_by", "$orderBy", opt,
          [parameters.options EXCEPT !.order_by = SomeVec(opt)])
order_by_add(opt) ==
    Build("order_by_add", "$orderBy", opt,
          [parameters.options EXCEPT !.order_by = push_or_new(@, opt)])
top(opt) ==
    Build("top", "$top", opt, [parameters.options EXCEPT !.top = SomeNum(opt)])
skip(opt) ==
    Build("skip", "$skip", opt, [parameters.options EXCEPT !.skip = SomeNum(opt)])

\* Into<String>::into: the options vector, serialised
into ==
    /\ ~parameters.out.done
    /\ parameters' = [parameters EXCEPT
                          !.out = [done |-> TRUE,
                                   str |-> serialize(Options(parameters.options))]]
    /\ UNCHANGED <<content, items, connection, json>>

Custom == \E opt \in CustomVecs : custom(opt)
CustomAdd == \E param \in CustomPairs : custom_add(param)
Select == \E opt \in FieldVecs : select(opt)
SelectAdd == select_add(S_3)
Expand == \E opt \in FieldVecs : expand(opt)
ExpandAdd == expand_add(S_Id)
Filter == \E opt \in FilterVecs : filter(opt)
FilterAdd == filter_add(S_true)
OrderBy == \E opt \in OrderVecs : order_by(opt)
OrderByAdd == order_by_add(S_Id)
Top == \E opt \in Counts : top(opt)
Skip == \E opt \in Counts : skip(opt)

NextParameters ==
    Custom \/ CustomAdd \/ Select \/ SelectAdd \/ Expand \/ ExpandAdd \/ Filter
        \/ FilterAdd \/ OrderBy \/ OrderByAdd \/ Top \/ Skip \/ into

\* Parameters::new(), builder calls in any order, then into()
SpecParameters == Init /\ [][NextParameters]_vars

----------------------------------------------------------------------------
(* Reading the log of POSTs *)

\* the request carries a parameter of this name
HasParam(req, name) == \E i \in DOMAIN req.params : req.params[i][1] = name

\* the value of the (first) parameter of this name
ParamOf(req, name) ==
    req.params[CHOOSE i \in DOMAIN req.params : req.params[i][1] = name][2]

\* the server acknowledged the POST: a response came back and its status is 2xx
PostSucceeded(p) == p.resp.ok /\ p.resp.status \in 200 .. 299

RECURSIVE BytesSucceededBefore(_)
\* total body length of the acknowledged POSTs among the first i - 1
BytesSucceededBefore(i) ==
    IF i <= 1 THEN 0
    ELSE BytesSucceededBefore(i - 1)
             + (IF PostSucceeded(posts[i - 1]) THEN BLen(posts[i - 1].req.body) ELSE 0)

\* number of acknowledged POSTs among the first i - 1
SucceededBefore(i) == Cardinality({ j \in 1 .. (i - 1) : PostSucceeded(posts[j]) })

AllPostsSucceeded == \A i \in DOMAIN posts : PostSucceeded(posts[i])

\* the last call was a write that sent a POST
LastWritePosted == last.op = "write" /\ Len(posts) > last.nposts

----------------------------------------------------------------------------
(* C1..C3: the declared size as an upper bound *)

\* C1: bytes_confirmed (written) never exceeds declared_size (size).
C1_ConfirmedWithinDeclared == written <= size

\* C2: bytes_confirmed plus the length of the pending buffer never exceeds
\* declared_size.
C2_AcceptedWithinDeclared == written + BLen(buffer) <= size

\* C3: a write whose input would take bytes_confirmed + pending past
\* declared_size fails as a size violation: nothing of it is buffered and no
\* POST is sent for it.
C3_OversizeWriteRejected ==
    (last.op = "write" /\ last.written + BLen(last.buffer) + BLen(last.input) > size)
        => /\ result.kind = "Panic"
           /\ buffer = last.buffer
           /\ Len(posts) = last.nposts

----------------------------------------------------------------------------
(* C4: an upload of exactly the declared size *)

\* C4: when the inputs taken by write sum to exactly declared_size and every
\* chunk POST succeeded, the POST bodies sum to declared_size and the last
\* POST, and only the last, carries finish=true.
C4_ExactUploadFinishesOnce ==
    (AllPostsSucceeded /\ BLen(accepted) = size)
        => /\ BytesSucceededBefore(Len(posts) + 1) = size
           /\ \A i \in DOMAIN posts :
                  /\ HasParam(posts[i].req, "finish") <=> (i = Len(posts))
                  /\ HasParam(posts[i].req, "finish")
                         => ParamOf(posts[i].req, "finish") = <<"true">>

\* a 20000-byte upload finished in two acknowledged chunks
C4_Witness ==
    /\ size = 20000
    /\ BLen(accepted) = size
    /\ Len(posts) = 2
    /\ AllPostsSucceeded

----------------------------------------------------------------------------
(* C5, C6: offset and index of a chunk *)

\* C5: the offset parameter of every chunk POST is the total body length of
\* the POSTs acknowledged before it.
C5_OffsetIsConfirmedBytes ==
    \A i \in DOMAIN posts :
        parse_decimal(ParamOf(posts[i].req, "offset")) = BytesSucceededBefore(i)

\* a chunk sent at a non-zero offset after an earlier chunk was refused
C5_Witness ==
    \E i \in DOMAIN posts :
        /\ ParamOf(posts[i].req, "offset") # <<0>>
        /\ \E j \in 1 .. (i - 1) : ~PostSucceeded(posts[j])

\* C6: the index parameter of every chunk POST is the number of POSTs
\* acknowledged before it, and chunk_index (chunk_no) is always the number of
\* POSTs acknowledged so far: 0 at first, one more per acknowledged POST, the
\* same after any other step.
C6_IndexCountsSuccesses ==
    /\ chunk_no = SucceededBefore(Len(posts) + 1)
    /\ \A i \in DOMAIN posts :
           parse_decimal(ParamOf(posts[i].req, "index")) = SucceededBefore(i)

\* chunk 1 was sent after a refused POST and a flush
C6_Witness ==
    /\ last.op = "flush"
    /\ chunk_no = 1
    /\ \E i \in DOMAIN posts : ~PostSucceeded(posts[i])

----------------------------------------------------------------------------
(* C7, C8: a chunk POST that fails *)

\* C7: after a write whose chunk POST failed, bytes_confirmed and chunk_index
\* are what they were and the pending buffer is what was sent as the body.
C7_FailedPostLeavesState ==
    (LastWritePosted /\ ~PostSucceeded(posts[Len(posts)]))
        => /\ written = last.written
           /\ chunk_no = last.chunk_no
           /\ buffer = posts[Len(posts)].req.body

\* a POST of a non-empty chunk was answered with 500
C7_Witness ==
    /\ LastWritePosted
    /\ result = StatusError(500)
    /\ buffer # EmptyBytes
    /\ chunk_no = 1

\* C8: when a write fails on a 500 and the next call is a write of the same
\* bytes, the retry POSTs the same index, offset, filehash and body.
C8_RetryReproducesRequest ==
    \A i \in 1 .. (Len(posts) - 1) :
        ( /\ posts[i].resp.ok
          /\ posts[i].resp.status = 500
          /\ posts[i + 1].call = posts[i].call + 1
          /\ posts[i + 1].input = posts[i].input )
            => /\ ParamOf(posts[i + 1].req, "index") = ParamOf(posts[i].req, "index")
               /\ ParamOf(posts[i + 1].req, "offset") = ParamOf(posts[i].req, "offset")
               /\ ParamOf(posts[i + 1].req, "filehash") = ParamOf(posts[i].req, "filehash")
               /\ posts[i + 1].req.body = posts[i].req.body

----------------------------------------------------------------------------
(* C9: the terminal state *)

\* C9: once bytes_confirmed of a handle opened for writing has reached
\* declared_size, every later write fails on the size check, no POST is sent
\* and bytes_confirmed, chunk_index and the pending buffer stay as they are.
C9_TerminalIsFinal ==
    [][ (writer /\ written >= size)
            => /\ written' = written
               /\ chunk_no' = chunk_no
               /\ buffer' = buffer
               /\ posts' = posts
               /\ (last'.op = "write" => result' = SizePanic) ]_vars

\* a write was refused on a handle that had uploaded exactly its declared size
C9_Witness ==
    /\ size > 0
    /\ last.written = size
    /\ last.op = "write"
    /\ result.kind = "Panic"

----------------------------------------------------------------------------
(* C10: one write of 20000 bytes *)

\* the handle was opened for 20000 bytes and has seen one successful write of 20000 bytes
OneWriteOf20000 ==
    /\ size = 20000
    /\ calls = 1
    /\ last.op = "write"
    /\ BLen(last.input) = 20000
    /\ result.kind = "Ok"

\* C10 (as claimed): a single successful write of 20000 bytes to a handle of
\* declared size 20000 sends two POSTs: 16384 bytes at offset 0 without
\* finish, then 3616 bytes at offset 16384 with finish=true.
C10_TwoPostsFor20000 ==
    OneWriteOf20000
        => /\ Len(posts) = 2
           /\ BLen(posts[1].req.body) = CHUNK_SIZE
           /\ ParamOf(posts[1].req, "offset") = <<0>>
           /\ ~HasParam(posts[1].req, "finish")
           /\ BLen(posts[2].req.body) = 3616
           /\ ParamOf(posts[2].req, "offset") = <<1, 6, 3, 8, 4>>
           /\ HasParam(posts[2].req, "finish")

\* C10 (amended): a single successful write of 20000 bytes to a handle of
\* declared size 20000 sends exactly one POST: all 20000 bytes, index 0,
\* offset 0, finish=true.
C10_OnePostFor20000 ==
    OneWriteOf20000
        => /\ Len(posts) = 1
           /\ BLen(posts[1].req.body) = 20000
           /\ ParamOf(posts[1].req, "index") = <<0>>
           /\ ParamOf(posts[1].req, "offset") = <<0>>
           /\ HasParam(posts[1].req, "finish")
           /\ ParamOf(posts[1].req, "finish") = <<"true">>

\* the one write of 20000 bytes has returned Ok(20000)
C10_Witness == OneWriteOf20000 /\ result.n = 20000 /\ written = 20000

----------------------------------------------------------------------------
(* C11: writes of 40 and 60 bytes into a file of 100 *)

\* the handle was opened for 100 bytes and its first call is a write of 40 bytes
First40Of100 ==
    /\ writer
    /\ size = 100
    /\ calls = 1
    /\ last.op = "write"
    /\ BLen(last.input) = 40

\* the second call is a write of 60 bytes on top of the 40 buffered
Then60Of100 ==
    /\ writer
    /\ size = 100
    /\ calls = 2
    /\ last.op = "write"
    /\ BLen(last.input) = 60
    /\ BLen(last.buffer) = 40
    /\ last.written = 0

\* C11: with declared_size 100 (below the chunk size), the write of 40 bytes
\* sends no POST and the following write of 60 bytes sends exactly one: a
\* 100-byte body with index 0, offset 0 and finish=true.
C11_FortyThenSixty ==
    /\ First40Of100 => (posts = <<>> /\ result = OkResult(40) /\ BLen(buffer) = 40)
    /\ Then60Of100
           => /\ Len(posts) = 1
              /\ posts[1].call = 2
              /\ BLen(posts[1].req.body) = 100
              /\ ParamOf(posts[1].req, "index") = <<0>>
              /\ ParamOf(posts[1].req, "offset") = <<0>>
              /\ HasParam(posts[1].req, "finish")
              /\ ParamOf(posts[1].req, "finish") = <<"true">>

\* both writes were made and the one POST was acknowledged
C11_Witness == Then60Of100 /\ result = OkResult(60) /\ written = 100

----------------------------------------------------------------------------
(* C12, C13: when a chunk is POSTed *)

\* the last call was a write on a handle opened for writing that had not
\* yet uploaded its declared size
LastWriteBelowSize == writer /\ last.op = "write" /\ last.written < size

\* the pending bytes of the last write once its input was appended
LastPending == BLen(last.buffer) + BLen(last.input)

\* the flush trigger as the claim states it, for the last write
LastTriggered == LastPending >= 16384 \/ last.written + LastPending >= size

\* C12: a write on a non-terminal handle POSTs a chunk exactly when, with
\* its input appended, the pending bytes have reached the chunk size or
\* bytes_confirmed + pending has reached declared_size; otherwise it sends
\* nothing and leaves bytes_confirmed and chunk_index alone.  Opening the
\* handle POSTs no chunk.
C12_PostIffTriggered ==
    /\ calls = 0 => posts = <<>>
    /\ LastWriteBelowSize
           => /\ (Len(posts) > last.nposts) <=> LastTriggered
              /\ ~LastTriggered
                     => /\ Len(posts) = last.nposts
                        /\ Len(net) = last.nnet
                        /\ written = last.written
                        /\ chunk_no = last.chunk_no

\* a chunk was POSTed because the buffer reached the chunk size, short of the end
C12_Witness ==
    /\ LastWriteBelowSize
    /\ LastWritePosted
    /\ LastPending >= 16384
    /\ last.written + LastPending < size

\* C13: a write sends at most one chunk POST, and exactly one when the
\* trigger is met; the POST belongs to that write call and its body is the
\* buffer with the call's input appended; no other call sends a POST.
C13_OnePostPerWrite ==
    /\ \A i \in DOMAIN posts :
           /\ posts[i].call \in 1 .. calls
           /\ \A j \in DOMAIN posts : i < j => posts[i].call < posts[j].call
    /\ last.op # "write" => Len(posts) = last.nposts
    /\ last.op = "write" => Len(posts) \in {last.nposts, last.nposts + 1}
    /\ (LastWriteBelowSize /\ LastTriggered) => Len(posts) = last.nposts + 1
    /\ LastWritePosted
           => /\ posts[Len(posts)].call = calls
              /\ posts[Len(posts)].input = last.input
              /\ posts[Len(posts)].req.body = extend_from_slice(last.buffer, last.input)

\* a flush followed two writes that each sent one POST, the second on top of
\* bytes a failed POST had left pending
C13_Witness ==
    /\ last.op = "flush"
    /\ Len(posts) = 2
    /\ posts[2].req.body # posts[2].input

----------------------------------------------------------------------------
(* C14: the digest of a chunk *)

\* C14: the filehash parameter of every chunk POST is the lowercase hex
\* digest of exactly the bytes sent as the body of that POST.
C14_FilehashIsDigestOfBody ==
    \A i \in DOMAIN posts :
        ParamOf(posts[i].req, "filehash") = to_hex(md5_compute(posts[i].req.body))

\* a second chunk whose body is neither the input of its write call, nor
\* the whole file so far, nor the chunk before it
C14_Witness ==
    /\ Len(posts) = 2
    /\ posts[2].req.body # posts[2].input
    /\ posts[2].req.body # accepted
    /\ posts[2].req.body # posts[1].req.body
    /\ ParamOf(posts[2].req, "filehash") # ParamOf(posts[1].req, "filehash")

----------------------------------------------------------------------------
(* C15: the mode of a handle *)

\* the step is a call of this operation on the handle
Called(op) == calls' = calls + 1 /\ last'.op = op

\* C15: a handle is created with either a reader or a writer, never both,
\* and keeps it; write on a handle opened for reading and read on a handle
\* opened for writing panic, move no bytes, send no request and leave the
\* WriteBuf and the reader as they are.
C15_ModeIsFixed ==
    [][ /\ ~(reader'.some /\ writer')
        /\ (open_result'.kind = "Ok") <=> (reader'.some \/ writer')
        /\ HandleExists => (reader'.some = reader.some /\ writer' = writer)
        /\ (reader.some /\ Called("write"))
               => /\ result' = NotWriterPanic
                  /\ UNCHANGED <<reader, size, written, buffer, chunk_no, accepted,
                                 posts, net, inner>>
        /\ (writer /\ Called("read"))
               => /\ result' = NotReaderPanic
                  /\ UNCHANGED <<reader, size, written, buffer, chunk_no, accepted,
                                 posts, net, inner>> ]_vars

\* write was called on a handle opened for reading, in the middle of its stream
C15_Witness ==
    /\ reader.some
    /\ ~writer
    /\ reader.left > 0
    /\ inner.n > 0
    /\ last.op = "write"
    /\ last.input # EmptyBytes
    /\ result = NotWriterPanic

----------------------------------------------------------------------------
(* C16: an acknowledged chunk, and what write returns *)

\* C16: after a write whose chunk POST succeeded, bytes_confirmed has grown
\* by the length of the POST body, chunk_index by one and the pending
\* buffer is empty; every write that returns Ok returns the length of its
\* input.
C16_SuccessAdvances ==
    /\ (LastWritePosted /\ PostSucceeded(posts[Len(posts)]))
           => /\ written = last.written + BLen(posts[Len(posts)].req.body)
              /\ chunk_no = last.chunk_no + 1
              /\ buffer = EmptyBytes
    /\ (last.op = "write" /\ result.kind = "Ok") => result.n = BLen(last.input)

\* a write of fewer bytes than the chunk it completed was acknowledged
C16_Witness ==
    /\ LastWritePosted
    /\ PostSucceeded(posts[Len(posts)])
    /\ result.kind = "Ok"
    /\ result.n > 0
    /\ result.n < BLen(posts[Len(posts)].req.body)

----------------------------------------------------------------------------
(* C17: the flush threshold *)

\* the chunk size the collaborator asked for, 16384 when it asked for none
ConfiguredThreshold == IF upload_chunk_size.some THEN upload_chunk_size.value ELSE 16384

\* C17: the threshold at which write POSTs a chunk is the chunk size the
\* Items collaborator is configured with, and 16384 when none is configured.
C17_ThresholdIsConfigured ==
    LastWriteBelowSize
        => ( (Len(posts) > last.nposts)
                <=> ( \/ LastPending >= ConfiguredThreshold
                      \/ last.written + LastPending >= size ) )

----------------------------------------------------------------------------
(* C18: the two ways a chunk POST fails *)

\* the last call was a write whose chunk POST failed
LastPostFailed == LastWritePosted /\ ~PostSucceeded(posts[Len(posts)])

\* C18 (as claimed): a non-2xx status gives an error that carries the
\* status code, a transport failure gives an error that carries the
\* transport cause.
C18_ErrorsCarryContext ==
    LastPostFailed
        => /\ result.kind = "Err"
           /\ IF posts[Len(posts)].resp.ok
              THEN result.status = posts[Len(posts)].resp.status
              ELSE result.cause = posts[Len(posts)].resp.cause

\* C18 (amended): a non-2xx status gives the error "Chunk upload failed
\* with status" with the status code; a transport failure gives the fixed
\* error "Cannot upload chunk", with no status and no cause; the two differ.
C18_ErrorsAreDistinct ==
    LastPostFailed
        => /\ result.kind = "Err"
           /\ IF posts[Len(posts)].resp.ok
              THEN /\ result.status = posts[Len(posts)].resp.status
                   /\ result.status \notin 200 .. 299
                   /\ result.msg = "Chunk upload failed with status"
              ELSE /\ result.status = 0
                   /\ result.cause = ""
                   /\ result.msg = "Cannot upload chunk"

\* a chunk POST failed in the transport
C18_Witness ==
    /\ LastPostFailed
    /\ ~posts[Len(posts)].resp.ok
    /\ posts[Len(posts)].resp.cause = "ConnectionRefused"
    /\ result.kind = "Err"

----------------------------------------------------------------------------
(* C19: a transfer specification without its URL *)

\* C19: when the specification lacks DownloadUrl (open_for_read) or
\* ChunkUri (open_for_write), the open call returns the error, no handle
\* exists, and the specification query is the only request ever sent.
C19_MissingUrlFailsOpen ==
    (net # <<>> /\ net[1].reply.ok /\ net[1].reply.field = "Missing")
        => /\ open_result = IF net[1].kind = "DownloadSpec" THEN DownloadUrlMissing
                                                           ELSE ChunkUriMissing
           /\ ~reader.some
           /\ ~writer
           /\ Len(net) = 1
           /\ posts = <<>>
           /\ calls = 0

\* open_for_write was refused for a specification without ChunkUri
C19_Witness ==
    /\ net # <<>>
    /\ net[1].kind = "UploadSpec"
    /\ net[1].reply = [ok |-> TRUE, field |-> "Missing"]
    /\ open_result = ChunkUriMissing

----------------------------------------------------------------------------
(* C20: read as a relay *)

\* C20: a read on a handle opened for reading makes one call on the
\* response body reader and returns what that call returned, byte count or
\* error; the bytes taken from the stream are the bytes returned, and no
\* request is sent.
C20_ReadRelaysInner ==
    (reader.some /\ last.op = "read")
        => /\ result = inner.ret
           /\ inner.n = last.ninner + 1
           /\ reader.left = last.left - result.n
           /\ (result.kind = "Ok" /\ result.n = 0) => (last.left = 0 \/ inner.cap = 0)
           /\ Len(net) = last.nnet
           /\ posts = <<>>

\* the second read of a download failed after the first had returned bytes
C20_Witness ==
    /\ reader.some
    /\ last.op = "read"
    /\ inner.n = 2
    /\ last.left > 0
    /\ last.left < MaxSmall + 1
    /\ result = ErrResult("read failed", "ConnectionReset")

----------------------------------------------------------------------------
(* C21: the order of the serialised query options *)

\* index of the first sep in str, 0 when there is none
FirstIndex(str, sep) ==
    IF \E i \in DOMAIN str : str[i] = sep
    THEN CHOOSE i \in DOMAIN str : str[i] = sep /\ \A j \in 1 .. (i - 1) : str[j] # sep
    ELSE 0

RECURSIVE SplitOn(_, _)
\* the pieces of str between the occurrences of sep
SplitOn(str, sep) ==
    IF FirstIndex(str, sep) = 0 THEN <<str>>
    ELSE <<SubSeq(str, 1, FirstIndex(str, sep) - 1)>>
             \o SplitOn(SubSeq(str, FirstIndex(str, sep) + 1, Len(str)), sep)

\* the character a percent code stands for
CharOfCode(hi, lo) == CHOOSE c \in DOMAIN PercentCodes : PercentCodes[c] = <<hi, lo>>

RECURSIVE decode(_)
\* what a server reads from an encoded name or value
decode(str) ==
    IF str = <<>> THEN <<>>
    ELSE IF str[1] = "+" THEN <<" ">> \o decode(Tail(str))
    ELSE IF str[1] = "%" /\ Len(str) >= 3
    THEN <<CharOfCode(str[2], str[3])>> \o decode(SubSeq(str, 4, Len(str)))
    ELSE <<str[1]>> \o decode(Tail(str))

\* the name=value pairs a server reads from a query string
parse_query(str) ==
    IF str = <<>> THEN <<>>
    ELSE [i \in 1 .. Len(SplitOn(str, "&")) |->
              LET kv == SplitOn(SplitOn(str, "&")[i], "=")
              IN  <<decode(kv[1]), IF Len(kv) >= 2 THEN decode(kv[2]) ELSE <<>>>>]

RECURSIVE CustomPairsOf(_)
\* the custom pairs the builder calls of log put in, in insertion order:
\* custom starts the list anew, custom_add puts one pair at its end
CustomPairsOf(log) ==
    IF log = <<>> THEN <<>>
    ELSE IF log[Len(log)].method = "custom" THEN log[Len(log)].arg
    ELSE IF log[Len(log)].method = "custom_add"
    THEN Append(CustomPairsOf(SubSeq(log, 1, Len(log) - 1)), log[Len(log)].arg)
    ELSE CustomPairsOf(SubSeq(log, 1, Len(log) - 1))

\* some builder call of log set this option
WasSet(log, option) == \E i \in DOMAIN log : log[i].option = option

\* the fixed order of the named options
FixedOrder == << <<"$", "s", "e", "l", "e", "c", "t">>,
                 <<"$", "e", "x", "p", "a", "n", "d">>,
                 <<"$", "f", "i", "l", "t", "e", "r">>,
                 <<"$", "o", "r", "d", "e", "r", "B", "y">>,
                 <<"$", "t", "o", "p">>,
                 <<"$", "s", "k", "i", "p">> >>
OptionNames == <<"$select", "$expand", "$filter", "$orderBy", "$top", "$skip">>

RECURSIVE NamedSet(_, _)
\* the names of the options set by log, from the i-th on, in the fixed order
NamedSet(log, i) ==
    IF i > Len(FixedOrder) THEN <<>>
    ELSE (IF WasSet(log, OptionNames[i]) THEN <<FixedOrder[i]>> ELSE <<>>)
             \o NamedSet(log, i + 1)

\* C21: whatever the order of the builder calls, the query string reads as
\* the custom pairs in insertion order, with their values, followed by the
\* options that were set, in the order $select, $expand, $filter, $orderBy,
\* $top, $skip, each once; an option never set is absent; with nothing set
\* the string is empty.
C21_FixedOptionOrder ==
    parameters.out.done =>
        LET pairs == parse_query(parameters.out.str)
            cust == CustomPairsOf(parameters.log)
        IN  /\ Len(pairs) = Len(cust) + Len(NamedSet(parameters.log, 1))
            /\ \A i \in 1 .. Len(cust) : pairs[i] = cust[i]
            /\ \A i \in 1 .. Len(NamedSet(parameters.log, 1)) :
                   pairs[Len(cust) + i][1] = NamedSet(parameters.log, 1)[i]
            /\ (parameters.log = <<>> => parameters.out.str = <<>>)

\* $skip was set first, then a custom pair whose value holds & and =, then
\* $select: the string has them in the opposite order
C21_Witness ==
    /\ parameters.out.done
    /\ Len(parameters.log) = 3
    /\ parameters.log[1].method = "skip"
    /\ parameters.log[2].method = "custom_add"
    /\ parameters.log[2].arg = <<S_enable, S_amp>>
    /\ parameters.log[3].method = "select"
    /\ parameters.log[3].arg # <<>>

----------------------------------------------------------------------------
(* C22: connect with a required setting missing *)

RequiredSettings == {"subdomain", "username", "password", "client_id", "client_secret"}

\* C22: when connect has returned and one of subdomain, username, password,
\* client_id, client_secret was not set, it returned an error, no HTTP
\* request was sent, and auth and endpoint are as configured left them.
C22_MissingSettingFailsConnect ==
    (connection.ret.kind # "None"
         /\ \E f \in RequiredSettings : ~connection.settings[f].some)
        => /\ connection.ret.kind = "Err"
           /\ connection.sent = <<>>
           /\ connection.auth = NoAuth
           /\ connection.endpoint = <<>>

\* connect was called with everything but the client secret set
C22_Witness ==
    /\ connection.ret.kind = "Err"
    /\ ~connection.settings.client_secret.some
    /\ \A f \in RequiredSettings \ {"client_secret"} : connection.settings[f].some

----------------------------------------------------------------------------
(* C23: Error::from_json *)

\* C23: from_json returns an error for every value that has a "code"
\* member, and Ok with the value unchanged for every value that has none.
C23_CodeMemberMeansError ==
    json.called =>
        IF has(json.input, "code")
        THEN json.kind = "Err"
        ELSE json.kind = "Ok" /\ json.value = json.input

----------------------------------------------------------------------------
(* C24: the byte stream *)

RECURSIVE AcknowledgedBytes(_)
\* the bodies of the acknowledged POSTs among the first i, in issue order
AcknowledgedBytes(i) ==
    IF i = 0 THEN EmptyBytes
    ELSE IF PostSucceeded(posts[i])
    THEN extend_from_slice(AcknowledgedBytes(i - 1), posts[i].req.body)
    ELSE AcknowledgedBytes(i - 1)

\* C24: on a handle opened for writing, the bodies of the acknowledged
\* POSTs in issue order followed by the pending buffer are the inputs, in
\* call order, of the writes that got past the size check, those that
\* returned an error included.
C24_StreamIsAcceptedInputs ==
    writer => extend_from_slice(AcknowledgedBytes(Len(posts)), buffer) = accepted

\* a chunk was acknowledged, a later POST failed, and bytes are pending
C24_Witness ==
    /\ writer
    /\ Len(posts) >= 2
    /\ PostSucceeded(posts[1])
    /\ ~PostSucceeded(posts[Len(posts)])
    /\ buffer # EmptyBytes
    /\ written > 0

----------------------------------------------------------------------------
(* C25: after a failed POST *)

\* C25: a write whose POST failed leaves its input at the end of the
\* pending buffer, which is then the body of that POST; and while the last
\* POST is a failed one, every write on the handle, whatever its input,
\* sends a new POST whose body starts with the whole body of the failed one.
C25_FailedBodyIsResent ==
    /\ LastPostFailed
           => /\ result.kind = "Err"
              /\ buffer = posts[Len(posts)].req.body
              /\ buffer = extend_from_slice(last.buffer, last.input)
    /\ (writer /\ last.op = "write" /\ last.nposts > 0
            /\ ~PostSucceeded(posts[last.nposts]))
           => /\ Len(posts) = last.nposts + 1
              /\ IsPrefix(posts[last.nposts].req.body, posts[Len(posts)].req.body)
              /\ BLen(posts[Len(posts)].req.body)
                     = BLen(posts[last.nposts].req.body) + BLen(last.input)

\* a POST failed, the next write had empty input and its POST failed too,
\* and a third write sent the bytes of all three
C25_Witness ==
    /\ Len(posts) = 3
    /\ ~PostSucceeded(posts[1])
    /\ ~PostSucceeded(posts[2])
    /\ posts[2].input = EmptyBytes
    /\ posts[3].input # EmptyBytes
    /\ PostSucceeded(posts[3])

----------------------------------------------------------------------------
(* C26: the handle at rest after a successful write *)

\* C26: when the most recent write on a handle opened for writing returned
\* Ok, either written >= size and nothing is pending, or fewer than
\* CHUNK_SIZE bytes are pending and written plus the pending bytes is below
\* size.
C26_AtRestAfterSuccess ==
    (writer /\ last.op = "write" /\ result.kind = "Ok")
        => \/ written >= size /\ buffer = EmptyBytes
           \/ BLen(buffer) < CHUNK_SIZE /\ written + BLen(buffer) < size

\* a write of 3616 bytes of a 20000-byte upload was only buffered
C26_Witness ==
    /\ writer
    /\ size = 20000
    /\ last.op = "write"
    /\ result.kind = "Ok"
    /\ BLen(buffer) = 3616
    /\ written = 0

----------------------------------------------------------------------------
(* C27: no empty chunk *)

\* C27: every chunk POST has a body of at least one byte.
C27_NoEmptyChunk == \A i \in DOMAIN posts : BLen(posts[i].req.body) > 0

\* an empty write on a handle with nothing pending sent nothing, and an
\* empty write after a failed POST sent the pending bytes again
C27_Witness ==
    /\ writer
    /\ calls = 3
    /\ Len(posts) = 2
    /\ posts[1].call = 2
    /\ posts[2].call = 3
    /\ posts[2].input = EmptyBytes

----------------------------------------------------------------------------
(* C28: flush and drop *)

\* C28: flush returns Ok, sends no request and leaves written, chunk_no and
\* buffer as they were; so does the end of the handle's life.  Pending
\* bytes therefore reach the server only in the POST of a write.
C28_FlushSendsNothing ==
    /\ last.op = "flush" => result = OkResult(0)
    /\ last.op \in {"flush", "drop"}
           => /\ Len(posts) = last.nposts
              /\ Len(net) = last.nnet
              /\ written = last.written
              /\ chunk_no = last.chunk_no
              /\ buffer = last.buffer

\* bytes were buffered and then flushed: they are still pending
C28_Witness ==
    /\ writer
    /\ last.op = "flush"
    /\ calls = 2
    /\ buffer # EmptyBytes
    /\ posts = <<>>

----------------------------------------------------------------------------
(* C29: a declared size of zero *)

\* C29: on a handle opened for writing with size 0 every write, the first
\* included and whatever its input, ends in the size panic; no POST is
\* ever sent and nothing is buffered.
C29_ZeroSizeNeverPosts ==
    (writer /\ size = 0)
        => /\ posts = <<>>
           /\ buffer = EmptyBytes
           /\ written = 0
           /\ last.op = "write" => result = SizePanic

\* the first write on a zero-size handle had empty input and panicked
C29_Witness ==
    /\ writer
    /\ size = 0
    /\ calls = 1
    /\ last.op = "write"
    /\ last.input = EmptyBytes
    /\ result = SizePanic

----------------------------------------------------------------------------
(* C30: the path a transfer is opened for *)

\* C30: download and upload hand an Id path to open_for_* as it is, without
\* a lookup; any other path is looked up once with stat and the Id path of
\* the one item found is handed on; when stat finds none, several, or
\* fails, the call returns an error, no specification is requested and no
\* Content is created.
C30_OpensOnlyResolvedPath ==
    items.op # "none" =>
        /\ is_id(items.path)
               => /\ items.lookups = <<>>
                  /\ items.opened = items.path
                  /\ net # <<>>
        /\ ~is_id(items.path)
               => /\ Len(items.lookups) = 1
                  /\ items.lookups[1].path = items.path
                  /\ IF items.lookups[1].found.kind = "One"
                     THEN /\ items.opened = item_path(items.lookups[1].found.item)
                          /\ net # <<>>
                     ELSE /\ items.opened = NoPath
                          /\ net = <<>>
                          /\ reader = NoReader
                          /\ ~writer
                          /\ ItemsReturn.kind = "Err"
        /\ (reader.some \/ writer) => is_id(items.opened)

\* a download by absolute path found several items and opened nothing
C30_Witness ==
    /\ items.op = "download"
    /\ items.path.kind = "Absolute"
    /\ items.lookups[1].found.kind = "Many"
    /\ ItemsReturn = ManyItems
    /\ net = <<>>

====
